---------------------------- MODULE Spec2Model ----------------------------
(***************************************************************************)
(* A model of lockey (src/lockey/main.py): the checksum-verified,          *)
(* content-addressed metadata file in the configuration directory, the     *)
(* get_verified_config session around it, and the commands built on it     *)
(* (init, add, rm, ls, get, destroy) with the vault directory they keep.   *)
(*                                                                         *)
(* Representation.                                                         *)
(*   - A string is a sequence of pieces: a secret name is the sequence of  *)
(*     its characters, a path the sequence of its components.              *)
(*   - A JSON value is a record [t, k, s, n, kids]: t its type, k the key  *)
(*     under which it sits in an object, s / n its string / number, kids   *)
(*     the members of an object or the items of an array.                  *)
(*   - The bytes of the metadata file are the sequence of JSON tokens      *)
(*     json.dump writes (white space left out); json.load parses them.     *)
(*   - SHA-256 is taken to be collision free: a digest is identified by    *)
(*     the bytes digested.                                                 *)
(*   - Every command is a little program counter machine whose steps are   *)
(*     the file system accesses of the code, in the code's order.  The     *)
(*     specification Spec runs each command to its end in one action;      *)
(*     SpecSteps interleaves the steps of two processes and lets a         *)
(*     process be killed between any two steps.                            *)
(***************************************************************************)
EXTENDS Integers, Sequences, FiniteSets, TLC

\* ------------------------------------------------------------------ bounds

\* The most secrets a metadata record or a vault directory holds.
MaxSecrets == 2
\* The most events from outside the commands: out-of-band changes (tampering,
\* files added or removed by hand) and sessions with a body of the caller's
\* (a session that fails to open runs no body and is not counted).
MaxOob == 1
\* The most chunks a vault file grows to (a plaintext add appends).
MaxChunks == 2
\* The most processes killed in the middle of a command.
MaxKills == 1

\* --------------------------------------------------------------- JSON values

NoStr == <<>>

JStr(s) == [t |-> "str", k |-> NoStr, s |-> s, n |-> 0, kids |-> <<>>]
JNum(n) == [t |-> "num", k |-> NoStr, s |-> NoStr, n |-> n, kids |-> <<>>]
JBool(b) == [t |-> IF b THEN "true" ELSE "false", k |-> NoStr, s |-> NoStr,
             n |-> 0, kids |-> <<>>]
JNull == [t |-> "null", k |-> NoStr, s |-> NoStr, n |-> 0, kids |-> <<>>]
JArr(items) == [t |-> "arr", k |-> NoStr, s |-> NoStr, n |-> 0, kids |-> items]
JObj(members) == [t |-> "obj", k |-> NoStr, s |-> NoStr, n |-> 0, kids |-> members]
\* The value v as the member of an object under key key.
Member(key, v) == [v EXCEPT !.k = <<key>>]

\* "key in data" of a dict.
HasKey(obj, key) == \E i \in 1..Len(obj.kids) : obj.kids[i].k = <<key>>
\* data[key]: json.load keeps the last of several members with one key.
GetKey(obj, key) ==
    LET i == CHOOSE j \in 1..Len(obj.kids) :
                 /\ obj.kids[j].k = <<key>>
                 /\ \A m \in (j+1)..Len(obj.kids) : obj.kids[m].k # <<key>>
    IN  [obj.kids[i] EXCEPT !.k = NoStr]

\* --------------------------------------------------------------- JSON tokens

Tok(t, s, n) == [t |-> t, s |-> s, n |-> n]

RECURSIVE JsonDump(_)
RECURSIVE DumpMembers(_, _)
RECURSIVE DumpItems(_, _)
\* json.dump(value, f, indent=2): the tokens written.
JsonDump(v) ==
    CASE v.t = "obj" -> <<Tok("{", NoStr, 0)>> \o DumpMembers(v.kids, 1)
                          \o <<Tok("}", NoStr, 0)>>
      [] v.t = "arr" -> <<Tok("[", NoStr, 0)>> \o DumpItems(v.kids, 1)
                          \o <<Tok("]", NoStr, 0)>>
      [] OTHER       -> <<Tok(v.t, v.s, v.n)>>
DumpMembers(ms, i) ==
    IF i > Len(ms) THEN <<>>
    ELSE <<Tok("key", ms[i].k, 0)>> \o JsonDump([ms[i] EXCEPT !.k = NoStr])
           \o DumpMembers(ms, i + 1)
DumpItems(xs, i) ==
    IF i > Len(xs) THEN <<>> ELSE JsonDump(xs[i]) \o DumpItems(xs, i + 1)

Scalars == {"str", "num", "true", "false", "null"}
ParseFail == [ok |-> FALSE, v |-> JNull, next |-> 0]

RECURSIVE ParseValue(_, _)
RECURSIVE ParseMembers(_, _, _)
RECURSIVE ParseItems(_, _, _)
\* The JSON value that starts at token i, and the place after it.
ParseValue(toks, i) ==
    IF i > Len(toks) THEN ParseFail
    ELSE CASE toks[i].t \in Scalars ->
                [ok |-> TRUE, next |-> i + 1,
                 v |-> [t |-> toks[i].t, k |-> NoStr, s |-> toks[i].s,
                        n |-> toks[i].n, kids |-> <<>>]]
           [] toks[i].t = "{" -> ParseMembers(toks, i + 1, <<>>)
           [] toks[i].t = "[" -> ParseItems(toks, i + 1, <<>>)
           [] OTHER -> ParseFail
ParseMembers(toks, i, acc) ==
    IF i > Len(toks) THEN ParseFail
    ELSE IF toks[i].t = "}" THEN [ok |-> TRUE, v |-> JObj(acc), next |-> i + 1]
    ELSE IF toks[i].t # "key" THEN ParseFail
    ELSE LET r == ParseValue(toks, i + 1)
         IN  IF ~r.ok THEN ParseFail
             ELSE ParseMembers(toks, r.next,
                               Append(acc, [r.v EXCEPT !.k = toks[i].s]))
ParseItems(toks, i, acc) ==
    IF i > Len(toks) THEN ParseFail
    ELSE IF toks[i].t = "]" THEN [ok |-> TRUE, v |-> JArr(acc), next |-> i + 1]
    ELSE LET r == ParseValue(toks, i)
         IN  IF ~r.ok THEN ParseFail
             ELSE ParseItems(toks, r.next, Append(acc, r.v))

\* json.load(f): one value and nothing after it, else JSONDecodeError.
WholeValue(toks, r) ==
    IF r.ok /\ r.next = Len(toks) + 1 THEN [ok |-> TRUE, v |-> r.v]
    ELSE [ok |-> FALSE, v |-> JNull]
JsonLoad(toks) == WholeValue(toks, ParseValue(toks, 1))


\* ------------------------------------------------------- the metadata record

\* LockeySecret and LockeyConfig (the InitVar init is no field).
LockeySecret(name, message, is_unencrypted) ==
    [name |-> name, message |-> message, is_unencrypted |-> is_unencrypted]
LockeyConfig(data_path, clipboard_timeout, secrets) ==
    [data_path |-> data_path, clipboard_timeout |-> clipboard_timeout,
     secrets |-> secrets]
NoConfig == LockeyConfig(JNull, JNull, <<>>)

\* An asdict that writes every secret as an encrypted one.
AsDictSecretEncrypted(sec) ==
    JObj(<<Member("name", sec.name), Member("message", sec.message),
           Member("is_unencrypted", JBool(FALSE))>>)
\* dataclasses.asdict(config): the fields in their declared order.
AsDictSecret(sec) ==
    JObj(<<Member("name", sec.name), Member("message", sec.message),
           Member("is_unencrypted", sec.is_unencrypted)>>)
AsDict(config) ==
    JObj(<<Member("data_path", config.data_path),
           Member("clipboard_timeout", config.clipboard_timeout),
           Member("secrets",
                  JArr([i \in 1..Len(config.secrets) |->
                           AsDictSecret(config.secrets[i])]))>>)

\* json.dump(dataclasses.asdict(config), f, indent=2): the bytes of the file.
Encode(config) == JsonDump(AsDict(config))

\* A from_dict that leaves the message of a secret out.
FromDictSecretNoMessage(v) ==
    IF v.t \in {"num", "true", "false", "null"}
    THEN [err |-> "type_error", sec |-> LockeySecret(JNull, JNull, JNull)]
    ELSE IF \/ v.t # "obj"
            \/ \E f \in {"name", "message", "is_unencrypted"} : ~HasKey(v, f)
    THEN [err |-> "field_missing", sec |-> LockeySecret(JNull, JNull, JNull)]
    ELSE [err |-> "",
          sec |-> LockeySecret(GetKey(v, "name"), JNull,
                               GetKey(v, "is_unencrypted"))]
\* from_dict(item, LockeySecret): every field must be a key of the dict; no
\* value's type is looked at.
FromDictSecret(v) ==
    IF v.t \in {"num", "true", "false", "null"}
    THEN [err |-> "type_error", sec |-> LockeySecret(JNull, JNull, JNull)]
    ELSE IF \/ v.t # "obj"
            \/ \E f \in {"name", "message", "is_unencrypted"} : ~HasKey(v, f)
    THEN [err |-> "field_missing", sec |-> LockeySecret(JNull, JNull, JNull)]
    ELSE [err |-> "",
          sec |-> LockeySecret(GetKey(v, "name"), GetKey(v, "message"),
                               GetKey(v, "is_unencrypted"))]

\* What iterating data["secrets"] yields: the items of a list, the keys of a
\* dict, the characters of a string.
IterItems(sv) ==
    IF sv.t = "arr" THEN sv.kids
    ELSE IF sv.t = "obj" THEN [i \in 1..Len(sv.kids) |-> JStr(sv.kids[i].k)]
    ELSE IF sv.t = "str" THEN [i \in 1..Len(sv.s) |-> JStr(<<sv.s[i]>>)]
    ELSE <<>>
\* The first failure among the decoded items rs, else the record.
CollectSecrets(v, rs) ==
    IF \E i \in 1..Len(rs) : rs[i].err # ""
    THEN [err |-> rs[CHOOSE i \in 1..Len(rs) :
                        rs[i].err # "" /\ \A j \in 1..(i - 1) : rs[j].err = ""].err,
          config |-> NoConfig]
    ELSE [err |-> "",
          config |-> LockeyConfig(GetKey(v, "data_path"),
                                  GetKey(v, "clipboard_timeout"),
                                  [i \in 1..Len(rs) |-> rs[i].sec])]
DecodeSecrets(v, items) ==
    CollectSecrets(v, [i \in 1..Len(items) |-> FromDictSecret(items[i])])
FromDictList(v, sv) ==
    IF sv.t \in {"num", "true", "false", "null"}
    THEN [err |-> "type_error", config |-> NoConfig]
    ELSE DecodeSecrets(v, IterItems(sv))
\* from_dict(config, LockeyConfig), before the dataclass is constructed.
FromDictFields(v) ==
    IF v.t \in {"num", "true", "false", "null"}
    THEN [err |-> "type_error", config |-> NoConfig]
    ELSE IF \/ v.t # "obj"
            \/ \E f \in {"data_path", "clipboard_timeout", "secrets"} :
                  ~HasKey(v, f)
    THEN [err |-> "field_missing", config |-> NoConfig]
    ELSE FromDictList(v, GetKey(v, "secrets"))

\* ------------------------------------------------------------- file system

\* The name of a file in the configuration directory: the digest of some
\* bytes (64 hex characters), or a name that is no digest.
Digest(bytes) == [hex |-> TRUE, dig |-> bytes, txt |-> NoStr]
\* A file name is the hexdigest of some bytes (hex, dig) or a text, character
\* by character (txt).
PlainName(txt) == [hex |-> FALSE, dig |-> <<>>, txt |-> txt]
TempName == PlainName(<<"t","e","m","p","n","a","m","e",".","j","s","o","n">>)

DEFAULT_DATA_PATH == <<"~", ".lockey">>
CustomHead == <<"w">>
MissingHead == <<"nodir">>
\* os.path.join(args.PATH, ".lockey")
JoinLockey(head) == head \o <<".lockey">>
DataPaths == {DEFAULT_DATA_PATH, JoinLockey(CustomHead), JoinLockey(MissingHead)}
\* The directories that exist whatever lockey does.
ExistingHeads == {<<"~">>, CustomHead}

NoDir == [exists |-> FALSE, files |-> {}]
EmptyDir == [exists |-> TRUE, files |-> {}]
\* fs.cfg is CONFIG_PATH, with entries [name, bytes, reg]; fs.vault[p] is the
\* directory p, with files [name, data].
\* fs.open holds the inodes some process holds open for writing.
NoFs == [cfg |-> NoDir, vault |-> [p \in DataPaths |-> NoDir], open |-> {}]

\* An entry of CONFIG_PATH; ino tells the file from the others whatever its
\* name is (a file held open is written through its inode).
CfgEntry(name, bytes, ino) ==
    [name |-> name, bytes |-> bytes, reg |-> TRUE, ino |-> ino]
VaultFile(name, data) == [name |-> name, data |-> data]
VaultNames(fs, p) == {f.name : f \in fs.vault[p].files}
\* os.path.exists(path) for a path that a JSON value names.
DirExists(fs, pv) ==
    pv.t = "str" /\ pv.s \in DataPaths /\ fs.vault[pv.s].exists

\* int(s, 16): blanks around are stripped, then a sign may come, then 0x or 0X
\* (and one underscore after it), then hex digits, single underscores between
\* them allowed.
HexDigits == {"0","1","2","3","4","5","6","7","8","9","a","b","c","d","e","f",
              "A","B","C","D","E","F"}
Whitespace == {" ", "\t", "\n"}
Strip(s) ==
    LET solid == {i \in 1..Len(s) : s[i] \notin Whitespace}
    IN  IF solid = {} THEN <<>>
        ELSE SubSeq(s, CHOOSE i \in solid : \A j \in solid : i <= j,
                       CHOOSE i \in solid : \A j \in solid : j <= i)
Unsigned(s) == IF Len(s) > 0 /\ s[1] \in {"+", "-"} THEN Tail(s) ELSE s
AfterPrefix(s) == IF Len(s) > 0 /\ s[1] = "_" THEN Tail(s) ELSE s
Unprefixed(s) ==
    IF Len(s) >= 2 /\ s[1] = "0" /\ s[2] \in {"x", "X"}
    THEN AfterPrefix(SubSeq(s, 3, Len(s))) ELSE s
Grouped(s) ==
    /\ Len(s) > 0
    /\ \A i \in 1..Len(s) : s[i] \in HexDigits \cup {"_"}
    /\ s[1] # "_" /\ s[Len(s)] # "_"
    /\ \A i \in 1..(Len(s) - 1) : ~(s[i] = "_" /\ s[i + 1] = "_")
IntBase16(s) == Grouped(Unprefixed(Unsigned(Strip(s))))

\* is_sha256_hash(s): len(s) == 64 and int(s, 16) does not raise (a hexdigest
\* is 64 hex digits).
HashLen == 64
is_sha256_hash(name) ==
    name.hex \/ (Len(name.txt) = HashLen /\ IntBase16(name.txt))

\* get_hash(filepath): the digest of the file's bytes.
HashOf(bytes) == Digest(bytes)
get_hash(fs, name) ==
    IF fs.cfg.exists /\ \E e \in fs.cfg.files : e.name = name /\ e.reg
    THEN [err |-> "",
          hash |-> HashOf((CHOOSE e \in fs.cfg.files : e.name = name).bytes)]
    ELSE [err |-> "not_file", hash |-> Digest(<<>>)]

\* get_config_metadata(...): the name of the one metadata file.
NoMeta == [err |-> "", name |-> Digest(<<>>), bytes |-> <<>>]
CheckEntry(e) ==
    IF ~is_sha256_hash(e.name) THEN [NoMeta EXCEPT !.err = "cfg_badname"]
    ELSE IF ~JsonLoad(e.bytes).ok THEN [NoMeta EXCEPT !.err = "cfg_notjson"]
    ELSE [err |-> "", name |-> e.name, bytes |-> e.bytes]
\* A listing that, of several files, takes one with a name of the form of a
\* hash.
CheckListingLax(config_dir_files) ==
    IF Cardinality(config_dir_files) = 0 THEN [NoMeta EXCEPT !.err = "cfg_empty"]
    ELSE CheckEntry(CHOOSE x \in config_dir_files :
                       \A y \in config_dir_files :
                          is_sha256_hash(x.name) \/ ~is_sha256_hash(y.name))
CheckListing(config_dir_files) ==
    IF Cardinality(config_dir_files) > 1 THEN [NoMeta EXCEPT !.err = "cfg_ambiguous"]
    ELSE IF Cardinality(config_dir_files) = 0 THEN [NoMeta EXCEPT !.err = "cfg_empty"]
    ELSE CheckEntry(CHOOSE x \in config_dir_files : TRUE)
get_config_metadata(fs) ==
    IF ~fs.cfg.exists THEN [NoMeta EXCEPT !.err = "cfgdir_missing"]
    ELSE CheckListing({e \in fs.cfg.files : e.reg})

\* LockeyConfig.__post_init__ with first_write false.
SecretPathErr(names, sec) ==
    IF sec.name.t # "str" THEN "type_error"
    \* os.path.join(data_path, "") is the directory itself
    ELSE IF sec.name.s = NoStr \/ sec.name.s \in names THEN ""
    ELSE "secret_missing"
FirstSecretErr(names, secrets) ==
    IF \A i \in 1..Len(secrets) : SecretPathErr(names, secrets[i]) = "" THEN ""
    ELSE SecretPathErr(names,
             secrets[CHOOSE i \in 1..Len(secrets) :
                        /\ SecretPathErr(names, secrets[i]) # ""
                        /\ \A j \in 1..(i - 1) : SecretPathErr(names, secrets[j]) = ""])
\* os.path.exists(data_path): of a string, whether the directory is there; of
\* an integer (true is 1, false is 0), whether that file descriptor is open,
\* as 0, 1 and 2 are; of anything else, a TypeError.
StdFds == {0, 1, 2}
PathExists(fs, pv) ==
    CASE pv.t = "str" -> IF DirExists(fs, pv) THEN "" ELSE "vault_missing"
      [] pv.t = "num" -> IF pv.n \in StdFds THEN "" ELSE "vault_missing"
      [] pv.t \in {"true", "false"} -> ""
      [] OTHER -> "type_error"
\* The comparison with 0 and the loop over the secrets; os.path.join of a
\* data_path that is no string raises.
PostInitRest(fs, config) ==
    IF config.clipboard_timeout.t \notin {"num", "true", "false"} THEN "type_error"
    ELSE IF config.clipboard_timeout.t = "num" /\ config.clipboard_timeout.n < 0
    THEN "bad_timeout"
    ELSE IF config.data_path.t # "str"
    THEN (IF Len(config.secrets) > 0 THEN "type_error" ELSE "")
    ELSE FirstSecretErr(VaultNames(fs, config.data_path.s), config.secrets)
PostInitRead(fs, config) ==
    IF PathExists(fs, config.data_path) # "" THEN PathExists(fs, config.data_path)
    ELSE PostInitRest(fs, config)

\* from_dict(config, LockeyConfig)
Construct(r, err) ==
    IF r.err # "" THEN r
    ELSE IF err # "" THEN [err |-> err, config |-> NoConfig]
    ELSE r
Constructed(fs, r) == Construct(r, PostInitRead(fs, r.config))
from_dict(fs, v) == Constructed(fs, FromDictFields(v))

\* get_config(): locate (twice), hash, compare with the name, load, decode.
\* A Verify that never compares the name with the hash.
VerifyUnchecked(fs, m, cur) ==
    IF m.err # "" THEN [err |-> m.err, config |-> NoConfig]
    ELSE IF cur.err # "" THEN [err |-> cur.err, config |-> NoConfig]
    ELSE from_dict(fs, JsonLoad(m.bytes).v)
Verify(fs, m, cur) ==
    IF m.err # "" THEN [err |-> m.err, config |-> NoConfig]
    ELSE IF cur.err # "" THEN [err |-> cur.err, config |-> NoConfig]
    ELSE IF m.name # cur.hash THEN [err |-> "checksum", config |-> NoConfig]
    ELSE from_dict(fs, JsonLoad(m.bytes).v)
Located(fs, m) == Verify(fs, m, get_hash(fs, m.name))
get_config(fs) == Located(fs, get_config_metadata(fs))

\* An inode no entry and no open file has.
FreshIno(fs) ==
    LET used == {e.ino : e \in fs.cfg.files} \cup fs.open
    IN  CHOOSE i \in 1..(Cardinality(used) + 1) : i \notin used

\* os.rename(src, dst) in CONFIG_PATH: dst, if there, is replaced.
\* A rename that leaves the file under its old name.
RenameNot(files, src, dst) == files
Rename(files, src, dst) ==
    IF src = dst THEN files
    ELSE LET e == CHOOSE x \in files : x.name = src
         IN  {x \in files : x.name \notin {src, dst}} \cup {[e EXCEPT !.name = dst]}

\* ------------------------------------------------------------ secret names

Letters == {"a","b","c","d","e","f","g","h","i","j","k","l","m","n","o","p","q",
            "r","s","t","u","v","w","x","y","z","A","B","C","D","E","F","G","H",
            "I","J","K","L","M","N","O","P","Q","R","S","T","U","V","W","X","Y",
            "Z"}
Digits == {"0","1","2","3","4","5","6","7","8","9"}
\* The class [a-zA-Z0-9\-_@.]
NameChars == Letters \cup Digits \cup {"-", "_", "@", "."}

\* re.compile(r"^[a-zA-Z0-9\-_@.]+$").match(name): one or more characters of
\* the class, then the end of the string or a newline that ends the string.
NameMatches(name) ==
    LET body == IF Len(name) > 0 /\ name[Len(name)] = "\n"
                THEN SubSeq(name, 1, Len(name) - 1) ELSE name
    IN  Len(body) > 0 /\ \A i \in 1..Len(body) : body[i] \in NameChars

\* os.path.splitext(filename)[0]: the name up to its last period, unless only
\* periods come before that one.
SplitextRoot(filename) ==
    LET dots == {i \in 1..Len(filename) : filename[i] = "."}
    IN  IF dots = {} THEN filename
        ELSE LET d == CHOOSE i \in dots : \A j \in dots : j <= i
             IN  IF \E j \in 1..(d - 1) : filename[j] # "."
                 THEN SubSeq(filename, 1, d - 1)
                 ELSE filename

NoHit == [found |-> FALSE, file |-> NoStr]
\* The loop of get_secret_filepath_by_name over os.listdir(data_path), which
\* lists in no promised order: the file named first is listed first.
LookupIn(names, name, first) ==
    LET hits == {f \in names : SplitextRoot(f) = name}
    IN  IF hits = {} THEN NoHit
        ELSE IF first \in hits THEN [found |-> TRUE, file |-> first]
        ELSE [found |-> TRUE, file |-> CHOOSE f \in hits : TRUE]


\* ------------------------------------------------- a command, step by step

\* What a process holds: the command and its arguments (cmd .. exc), what
\* the environment answers (first: the file os.listdir lists first; gpg:
\* whether gpg succeeds), and the locals of the code.  entered tells that
\* the body of a session was run with a record; at, where a killed process
\* was.
Idle ==
    [pc |-> "idle", cmd |-> "none", name |-> NoStr, msg |-> JNull,
     plain |-> FALSE, secret |-> "", path |-> NoStr, resp |-> "",
     mode |-> "", mut |-> "", exc |-> "", first |-> NoStr, gpg |-> FALSE,
     config |-> NoConfig, data_path |-> JNull, fpath |-> Digest(<<>>),
     hash |-> Digest(<<>>), fd |-> 0, hit |-> NoHit, in_config |-> FALSE,
     exn |-> "", ret |-> "", err |-> "", clip |-> <<>>, entered |-> FALSE,
     at |-> ""]

\* What get_config() raises: the store cannot be read, whatever is asked.
StoreErrors == {"cfgdir_missing", "cfg_ambiguous", "cfg_empty", "cfg_badname",
                "cfg_notjson", "not_file", "checksum", "type_error",
                "field_missing", "vault_missing", "bad_timeout", "secret_missing"}

\* The command has ended: its locals are gone; what it was, what it found
\* and how it ended stay (of a command that failed, what decided that).
Finish(l, err) ==
    LET ok == err = ""
    IN  [Idle EXCEPT !.pc = "done", !.cmd = l.cmd,
                     !.name = IF err \in StoreErrors /\ l.cmd # "rm" THEN NoStr
                              ELSE l.name,
                     !.msg = IF ok THEN l.msg ELSE JNull,
                     !.plain = ok /\ l.plain,
                     !.secret = IF ok THEN l.secret ELSE "",
                     !.path = l.path,
                     !.resp = l.resp,
                     !.mode = l.mode,
                     !.mut = IF l.entered THEN l.mut ELSE Idle.mut,
                     !.exc = IF l.entered THEN l.exc ELSE Idle.exc,
                     !.hit = l.hit,
                     !.in_config = l.in_config, !.clip = l.clip,
                     !.entered = l.entered, !.err = err]

St(fs, l) == [fs |-> fs, l |-> l]
Goto(fs, l, pc) == St(fs, [l EXCEPT !.pc = pc])
Raise(fs, l, err) == St(fs, Finish(l, err))

\* execute_init ------------------------------------------------------------

\* The data_path execute_init chooses.
\* An init that takes the default vault path whatever path is given.
InitDataPathDefault(path) == DEFAULT_DATA_PATH
InitDataPath(path) ==
    IF path # DEFAULT_DATA_PATH THEN JoinLockey(path) ELSE DEFAULT_DATA_PATH

\* LockeyConfig.__post_init__ with first_write true.
PostInitFirst(fs, data_path) ==
    IF fs.vault[data_path].exists THEN "data_exists"
    ELSE IF fs.cfg.exists THEN "cfg_exists"
    ELSE IF SubSeq(data_path, 1, Len(data_path) - 1) \notin ExistingHeads
    THEN "head_missing"
    ELSE ""

DEFAULT_TIMEOUT == 45

StepInit(fs, l) ==
    CASE l.pc = "init_check" ->
           LET dp == InitDataPath(l.path)
               config == LockeyConfig(JStr(dp), JNum(DEFAULT_TIMEOUT), <<>>)
           IN  IF PostInitFirst(fs, dp) # "" THEN Raise(fs, l, PostInitFirst(fs, dp))
               ELSE St(fs, [l EXCEPT !.pc = "init_mkdir", !.config = config,
                                     !.data_path = JStr(dp)])
      [] l.pc = "init_mkdir" ->      \* os.mkdir(CONFIG_PATH)
           IF fs.cfg.exists THEN Raise(fs, l, "io_error")
           ELSE Goto([fs EXCEPT !.cfg = EmptyDir], l, "init_dump")
      [] l.pc = "init_dump" ->       \* open(tempname.json, "w"), json.dump, chmod
           IF ~fs.cfg.exists THEN Raise(fs, l, "io_error")
           ELSE LET old == {e \in fs.cfg.files : e.name = TempName}
                    ino == IF old = {} THEN FreshIno(fs)
                           ELSE (CHOOSE e \in old : TRUE).ino
                IN  Goto([fs EXCEPT !.cfg.files =
                              (@ \ old) \cup {CfgEntry(TempName, Encode(l.config), ino)}],
                         l, "init_hash")
      [] l.pc = "init_hash" ->       \* get_hash(temp_config_filepath)
           LET h == get_hash(fs, TempName)
           IN  IF h.err # "" THEN Raise(fs, l, h.err)
               ELSE St(fs, [l EXCEPT !.pc = "init_rename", !.hash = h.hash])
      [] l.pc = "init_rename" ->     \* os.rename(temp_config_filepath, config_filepath)
           IF ~(fs.cfg.exists /\ \E e \in fs.cfg.files : e.name = TempName)
           THEN Raise(fs, l, "io_error")
           ELSE Goto([fs EXCEPT !.cfg.files = Rename(@, TempName, l.hash)],
                     l, "init_mkdata")
      [] l.pc = "init_mkdata" ->     \* os.mkdir(data_path)
           IF fs.vault[l.data_path.s].exists
              \/ SubSeq(l.data_path.s, 1, Len(l.data_path.s) - 1) \notin ExistingHeads
           THEN Raise(fs, l, "io_error")
           ELSE Raise([fs EXCEPT !.vault[l.data_path.s] = EmptyDir], l, "")

\* get_verified_config -----------------------------------------------------

\* An add whose with-block also sets the vault path to the default one.
BodyMovesVault(l, config) ==
    IF l.cmd = "add"
    THEN [config |-> [config EXCEPT
                         !.data_path = JStr(DEFAULT_DATA_PATH),
                         !.secrets = Append(@, LockeySecret(JStr(l.name), l.msg,
                                                            JBool(l.plain)))],
          exn |-> ""]
    ELSE [config |-> config, exn |-> l.exc]
\* What the with-block does to the record it is handed, and what it raises.
Body(l, config) ==
    CASE l.cmd = "add" ->
           [config |-> [config EXCEPT !.secrets =
                           Append(@, LockeySecret(JStr(l.name), l.msg, JBool(l.plain)))],
            exn |-> ""]
      [] l.cmd = "rm" ->
           [config |-> [config EXCEPT !.secrets =
                           SelectSeq(@, LAMBDA sec : sec.name # JStr(l.name))],
            exn |-> ""]
      [] OTHER ->
           [config |-> CASE l.mut = "timeout" ->
                              [config EXCEPT !.clipboard_timeout = JNum(30)]
                         [] l.mut = "append" ->
                              [config EXCEPT !.secrets =
                                  Append(@, LockeySecret(JStr(l.name), l.msg,
                                                         JBool(l.plain)))]
                         [] OTHER -> config,
            exn |-> l.exc]

\* A finally clause that writes back in mode "r" too, and one that never does.
CommitsAnyMode(mode, exn) == exn # "checksum"
CommitsNever(mode, exn) == FALSE
\* Whether the finally clause writes the record back.
Commits(mode, exn) == exn # "checksum" /\ mode = "w"

\* The session has ended: what was raised goes on, else the command does.
Leave(fs, l, exn) ==
    IF exn # "" THEN Raise(fs, l, exn) ELSE Goto(fs, l, l.ret)

\* r is what get_config() returns on fs, m what get_config_metadata does.
StepSession(fs, l, r, m) ==
    CASE l.pc = "s_open" ->          \* config = get_config()
           IF r.err # "" THEN Raise(fs, l, r.err)
           ELSE St(fs, [l EXCEPT !.pc = "s_body", !.config = r.config])
      [] l.pc = "s_body" ->          \* yield config
           LET b == Body(l, l.config)
               l2 == [l EXCEPT !.config = b.config, !.exn = b.exn]
           IN  IF Commits(l.mode, b.exn) THEN Goto(fs, l2, "c_lookup")
               ELSE Leave(fs, l2, b.exn)
      [] l.pc = "c_lookup" ->        \* get_config_metadata("filepath")
           IF m.err # "" THEN Raise(fs, l, m.err)
           ELSE St(fs, [l EXCEPT !.pc = "c_open", !.fpath = m.name])
      [] l.pc = "c_open" ->          \* open(..., "w"): truncates, or creates
           IF ~fs.cfg.exists THEN Raise(fs, l, "io_error")
           ELSE LET old == {e \in fs.cfg.files : e.name = l.fpath}
                    ino == IF old = {} THEN FreshIno(fs)
                           ELSE (CHOOSE e \in old : TRUE).ino
                IN  St([fs EXCEPT !.cfg.files =
                            (@ \ old) \cup {CfgEntry(l.fpath, <<>>, ino)},
                                  !.open = @ \cup {ino}],
                       [l EXCEPT !.pc = "c_dump", !.fd = ino])
      [] l.pc = "c_dump" ->          \* json.dump(config_dict, f, indent=2); close
           St([fs EXCEPT !.cfg.files =
                   {IF e.ino = l.fd THEN [e EXCEPT !.bytes = Encode(l.config)] ELSE e
                      : e \in @},
                         !.open = @ \ {l.fd}],
              [l EXCEPT !.pc = "c_lookup2", !.fd = 0])
      [] l.pc = "c_lookup2" ->       \* config_filepath = get_config_metadata("filepath")
           IF m.err # "" THEN Raise(fs, l, m.err)
           ELSE St(fs, [l EXCEPT !.pc = "c_hash", !.fpath = m.name])
      [] l.pc = "c_hash" ->          \* new_config_hash = get_hash(config_filepath)
           LET h == get_hash(fs, l.fpath)
           IN  IF h.err # "" THEN Raise(fs, l, h.err)
               ELSE St(fs, [l EXCEPT !.pc = "c_rename", !.hash = h.hash])
      [] l.pc = "c_rename" ->        \* os.rename(config_filepath, new_config_filename)
           IF ~(fs.cfg.exists /\ \E e \in fs.cfg.files : e.name = l.fpath)
           THEN Raise(fs, l, "io_error")
           ELSE Leave([fs EXCEPT !.cfg.files = Rename(@, l.fpath, l.hash)],
                      l, l.exn)


\* get_secret_filepath_by_name(name): the vault file found, if any.  r is
\* what the session in mode "r" (get_config() and nothing written) yields.
get_secret_filepath_by_name(fs, r, name, first) ==
    IF r.err # "" THEN [err |-> r.err, hit |-> NoHit]
    ELSE IF ~DirExists(fs, r.config.data_path)
    THEN [err |-> "io_error", hit |-> NoHit]
    ELSE [err |-> "",
          hit |-> LookupIn(VaultNames(fs, r.config.data_path.s), name, first)]

Plain(secret) == [enc |-> FALSE, text |-> secret]
Cipher(secret) == [enc |-> TRUE, text |-> secret]
\* The bytes of the vault file name in directory p (nothing if there is none).
VaultData(fs, p, name) ==
    IF name \in VaultNames(fs, p)
    THEN (CHOOSE f \in fs.vault[p].files : f.name = name).data
    ELSE <<>>
\* The vault directory p with the file name holding data.
WriteVault(fs, p, name, data) ==
    [fs EXCEPT !.vault[p].files =
        {f \in @ : f.name # name} \cup {VaultFile(name, data)}]

\* execute_add -------------------------------------------------------------

StepAdd(fs, l, r) ==
    CASE l.pc = "add_validate" ->
           IF ~NameMatches(l.name) THEN Raise(fs, l, "invalid_name")
           ELSE Goto(fs, l, "add_lookup")
      [] l.pc = "add_lookup" ->      \* get_secret_filepath_by_name(args.NAME)
           LET k == get_secret_filepath_by_name(fs, r, l.name, l.first)
           IN  IF k.err # "" THEN Raise(fs, l, k.err)
               ELSE IF k.hit.found
               THEN Raise(fs, [l EXCEPT !.hit = k.hit], "exists_in_vault")
               ELSE Goto(fs, l, "add_config")
      [] l.pc = "add_config" ->      \* the names in config.secrets
               IF r.err # "" THEN Raise(fs, l, r.err)
               ELSE IF \E i \in 1..Len(r.config.secrets) :
                          r.config.secrets[i].name = JStr(l.name)
               THEN Raise(fs, [l EXCEPT !.in_config = TRUE], "exists_in_config")
               ELSE St(fs, [l EXCEPT !.pc = "add_store",
                                     !.data_path = r.config.data_path])
      [] l.pc = "add_store" ->
           LET p == l.data_path.s
           IN  IF ~DirExists(fs, l.data_path) THEN Raise(fs, l, "io_error")
               ELSE IF l.plain       \* open(output_filepath, "a"); f.write(secret)
               THEN St(WriteVault(fs, p, l.name,
                                  Append(VaultData(fs, p, l.name), Plain(l.secret))),
                       [l EXCEPT !.pc = "s_open", !.mode = "w", !.ret = "add_done"])
               ELSE IF ~l.gpg        \* encrypt_secret: gpg exits non-zero
               THEN Raise(fs, l, "gpg_failed")
               ELSE                  \* gpg --output ... --yes writes the file anew
                    St(WriteVault(fs, p, l.name, <<Cipher(l.secret)>>),
                       [l EXCEPT !.pc = "s_open", !.mode = "w", !.ret = "add_done"])
      [] l.pc = "add_done" -> Raise(fs, l, "")

\* execute_rm --------------------------------------------------------------

StepRm(fs, l, r) ==
    CASE l.pc = "rm_lookup" ->       \* get_secret_filepath_by_name(args.NAME)
           LET k == get_secret_filepath_by_name(fs, r, l.name, l.first)
           IN  IF k.err # "" THEN Raise(fs, l, k.err)
               ELSE St(fs, [l EXCEPT !.pc = "rm_config", !.hit = k.hit])
      [] l.pc = "rm_config" ->       \* in_config
           LET in_config == \E i \in 1..Len(r.config.secrets) :
                               JStr(l.name) = r.config.secrets[i].name
               l2 == [l EXCEPT !.in_config = in_config,
                               !.data_path = r.config.data_path]
           IN  IF r.err # "" THEN Raise(fs, l, r.err)
               ELSE IF ~in_config /\ ~l.hit.found THEN Raise(fs, l2, "not_found")
               ELSE IF in_config
               THEN St(fs, [l2 EXCEPT !.pc = "s_open", !.mode = "w",
                                      !.ret = "rm_vault"])
               ELSE Goto(fs, l2, "rm_vault")
      [] l.pc = "rm_vault" ->        \* os.remove(secret_filepath)
           LET p == l.data_path.s
           IN  IF ~l.hit.found THEN Raise(fs, l, "")
               ELSE IF ~(DirExists(fs, l.data_path)
                         /\ l.hit.file \in VaultNames(fs, p))
               THEN Raise(fs, l, "io_error")
               ELSE Raise([fs EXCEPT !.vault[p].files =
                               {f \in @ : f.name # l.hit.file}], l, "")

\* execute_ls, execute_get -------------------------------------------------

StepLs(fs, l, r) ==                  \* pc = "ls"
    Raise(fs, l, r.err)

StepGet(fs, l, r) ==
    CASE l.pc = "get_lookup" ->      \* get_secret_filepath_by_name(args.NAME)
           LET k == get_secret_filepath_by_name(fs, r, l.name, l.first)
           IN  IF k.err # "" THEN Raise(fs, l, k.err)
               ELSE IF ~k.hit.found THEN Raise(fs, l, "not_found")
               ELSE St(fs, [l EXCEPT !.pc = "get_read", !.hit = k.hit])
      [] l.pc = "get_read" ->        \* is_secret_encrypted, then decrypt or read
           LET idx == {i \in 1..Len(r.config.secrets) :
                          r.config.secrets[i].name = JStr(l.name)}
               sec == r.config.secrets[CHOOSE i \in idx : \A j \in idx : i <= j]
               data == VaultData(fs, r.config.data_path.s, l.hit.file)
           IN  IF r.err # "" THEN Raise(fs, l, r.err)
               ELSE IF idx = {} \/ sec.is_unencrypted.t = "null"
               THEN Raise(fs, l, "not_found")
               ELSE IF l.hit.file \notin VaultNames(fs, r.config.data_path.s)
               THEN Raise(fs, l, "io_error")
               ELSE IF sec.is_unencrypted.t = "false" /\ ~l.gpg
               THEN Raise(fs, l, "gpg_failed")
               ELSE St(fs, [l EXCEPT !.pc = "get_timeout", !.clip = data,
                                     !.in_config = TRUE])
      [] l.pc = "get_timeout" ->     \* config.clipboard_timeout
           Raise(fs, l, r.err)

\* execute_destroy ---------------------------------------------------------

StepDestroy(fs, l, r) ==
    CASE l.pc = "destroy_open" ->    \* data_path, then the question
           IF r.err # "" THEN Raise(fs, l, r.err)
           ELSE IF l.resp = "n" THEN Raise(fs, l, "")
           ELSE St(fs, [l EXCEPT !.pc = "destroy_data",
                                 !.data_path = r.config.data_path])
      [] l.pc = "destroy_data" ->    \* shutil.rmtree(data_path)
           IF ~DirExists(fs, l.data_path) THEN Raise(fs, l, "io_error")
           ELSE Goto([fs EXCEPT !.vault[l.data_path.s] = NoDir], l, "destroy_cfg")
      [] l.pc = "destroy_cfg" ->     \* shutil.rmtree(CONFIG_PATH)
           IF ~fs.cfg.exists THEN Raise(fs, l, "io_error")
           ELSE Raise([fs EXCEPT !.cfg = NoDir], l, "")

\* One step of whatever command l runs.
SessionPcs == {"s_open", "s_body", "c_lookup", "c_open", "c_dump", "c_lookup2",
               "c_hash", "c_rename"}
CommitPcs == {"c_lookup", "c_open", "c_dump", "c_lookup2", "c_hash", "c_rename"}
StepWith(fs, l, r, m) ==
    CASE l.pc \in SessionPcs -> StepSession(fs, l, r, m)
      [] l.cmd = "init" -> StepInit(fs, l)
      [] l.cmd = "add" -> StepAdd(fs, l, r)
      [] l.cmd = "rm" -> StepRm(fs, l, r)
      [] l.cmd = "ls" -> StepLs(fs, l, r)
      [] l.cmd = "get" -> StepGet(fs, l, r)
      [] l.cmd = "destroy" -> StepDestroy(fs, l, r)
      [] l.cmd = "session" -> Raise(fs, l, "")   \* pc = "session_done"
\* The steps that open a session: its body runs iff get_config() returns.
OpenPcs == {"s_open", "add_lookup", "add_config", "rm_lookup", "rm_config", "ls",
            "get_lookup", "get_read", "get_timeout", "destroy_open"}
Entered(n, yes) == [n EXCEPT !.l.entered = @ \/ yes]
StepMarked(fs, l, r, m) ==
    Entered(StepWith(fs, l, r, m), l.pc \in OpenPcs /\ r.err = "")
Step(fs, l) == StepMarked(fs, l, get_config(fs), get_config_metadata(fs))

Running(l) == l.pc \notin {"idle", "done"}

RECURSIVE Run(_, _)
RECURSIVE RunOn(_)
\* The command run to its end.
Run(fs, l) == IF ~Running(l) THEN St(fs, l) ELSE RunOn(Step(fs, l))
RunOn(n) == Run(n.fs, n.l)


\* ------------------------------------------------------------------ inputs

\* Secret names tried: plain ones, one with a period, one that ends in a
\* newline, and names the validator is to turn down.
GoodNames == {<<"a">>, <<"a", ".", "b">>}
NamePool == GoodNames \cup {<<"a", "\n">>, <<>>, <<"a", " ", "b">>, <<"a", "/">>}
\* add -m test -p; add (no message, encrypted), where gpg works or fails.
PlainForm == [msg |-> JStr(<<"test">>), plain |-> TRUE, gpg |-> TRUE]
AddForms == {PlainForm,
             [msg |-> JNull, plain |-> FALSE, gpg |-> TRUE],
             [msg |-> JNull, plain |-> FALSE, gpg |-> FALSE]}
Secrets == {"pw"}
\* The names rm and get are asked for: those stored, and one never stored.
GetNames == GoodNames \cup {<<"b">>}
InitPaths == {DEFAULT_DATA_PATH, CustomHead, MissingHead}

\* The files os.listdir may list first when that decides what is found.
FirstChoices(f, name) ==
    LET hits == {n \in UNION {VaultNames(f, p) : p \in DataPaths} :
                    SplitextRoot(n) = name}
    IN  IF Cardinality(hits) > 1 THEN hits ELSE {NoStr}

StartInit(path) == [Idle EXCEPT !.pc = "init_check", !.cmd = "init", !.path = path]
StartAdd(name, msg, plain, secret, first, gpg) ==
    [Idle EXCEPT !.pc = "add_validate", !.cmd = "add", !.name = name,
                 !.msg = msg, !.plain = plain, !.secret = secret,
                 !.first = first, !.gpg = gpg]
StartRm(name, first) ==
    [Idle EXCEPT !.pc = "rm_lookup", !.cmd = "rm", !.name = name, !.first = first]
StartLs == [Idle EXCEPT !.pc = "ls", !.cmd = "ls"]
StartGet(name, first, gpg) ==
    [Idle EXCEPT !.pc = "get_lookup", !.cmd = "get", !.name = name,
                 !.first = first, !.gpg = gpg]
StartDestroy(resp) ==
    [Idle EXCEPT !.pc = "destroy_open", !.cmd = "destroy", !.resp = resp]
\* with get_verified_config(mode) as config: <mut>; raise <exc>
StartSession(mode, mut, exc, name) ==
    [Idle EXCEPT !.pc = "s_open", !.cmd = "session", !.mode = mode,
                 !.mut = mut, !.exc = exc, !.ret = "session_done",
                 !.name = name, !.plain = TRUE]
Muts == {"none", "timeout", "append"}
Excs == {"", "checksum", "other"}

\* ------------------------------------------------------------------- state

\* fs: the file system; proc: what each process runs, or ran last; oob: the
\* events from outside the commands so far; kills: the processes killed so
\* far; hist: whether two sessions held a record at once, neither having
\* begun to commit (both), and the process that renamed last (last).
VARIABLES fs, proc, oob, kills, hist
vars == <<fs, proc, oob, kills, hist>>

Procs == {1, 2}

\* The record in the metadata file as far as it decodes (no check of the vault).
Decoded(j) ==
    IF j.ok THEN FromDictFields(j.v) ELSE [err |-> "none", config |-> NoConfig]
StoredIn(files) ==
    IF Cardinality(files) = 1 THEN Decoded(JsonLoad((CHOOSE x \in files : TRUE).bytes))
    ELSE [err |-> "none", config |-> NoConfig]
Stored(f) == StoredIn({e \in f.cfg.files : e.reg})

\* The bounds of the model.
Within(f) ==
    /\ Len(Stored(f).config.secrets) <= MaxSecrets
    /\ \A p \in DataPaths :
          /\ Cardinality(f.vault[p].files) <= MaxSecrets
          /\ \A x \in f.vault[p].files : Len(x.data) <= MaxChunks

Init ==
    /\ fs = NoFs
    /\ proc = [p \in Procs |-> Idle]
    /\ oob = 0
    /\ kills = 0
    /\ hist = [both |-> FALSE, last |-> 0]

\* Process p runs the command l0 from its start to its end.
Ends(p, r) ==
    /\ Within(r.fs)
    /\ fs' = r.fs
    /\ proc' = [proc EXCEPT ![p] = r.l]
Exec(p, l0) ==
    /\ ~Running(proc[p])
    /\ Ends(p, Run(fs, l0))
    /\ UNCHANGED <<kills, hist>>

DoInit == \E path \in InitPaths : Exec(1, StartInit(path)) /\ UNCHANGED oob
DoAdd ==
    \E name \in NamePool, secret \in Secrets :
      \E form \in IF NameMatches(name) THEN AddForms ELSE {PlainForm} :
        Exec(1, StartAdd(name, form.msg, form.plain, secret, NoStr, form.gpg))
        /\ UNCHANGED oob
DoRm ==
    \E name \in GetNames : \E first \in FirstChoices(fs, name) :
        Exec(1, StartRm(name, first)) /\ UNCHANGED oob
DoLs == Exec(1, StartLs) /\ UNCHANGED oob
DoGet ==
    \E name \in GetNames, gpg \in BOOLEAN : \E first \in FirstChoices(fs, name) :
        Exec(1, StartGet(name, first, gpg)) /\ UNCHANGED oob
DoDestroy == \E resp \in {"y", "n"} : Exec(1, StartDestroy(resp)) /\ UNCHANGED oob
Opens(f) == get_config(f).err = ""
DoSession ==
    /\ oob < MaxOob \/ ~Opens(fs)
    /\ oob' = IF Opens(fs) THEN oob + 1 ELSE oob
    /\ \E mode \in {"r", "w"}, mut \in Muts, exc \in Excs :
         \E name \in IF mut = "append" THEN {<<"a">>} ELSE {NoStr} :
           Exec(1, StartSession(mode, mut, exc, name))

\* Out-of-band changes -------------------------------------------------------

\* Bytes someone may leave in the place of bytes: none, a member more (still
\* JSON), a negative number for every number (still JSON).
Tampered(bytes) ==
    {<<>>,
     SubSeq(bytes, 1, Len(bytes) - 1)
        \o <<Tok("key", <<"foo">>, 0), Tok("str", <<"bar">>, 0), Tok("}", NoStr, 0)>>,
     [i \in 1..Len(bytes) |->
        IF bytes[i].t = "num" THEN [bytes[i] EXCEPT !.n = -1] ELSE bytes[i]]}
    \ {bytes}

Quiet == \A p \in Procs : ~Running(proc[p])

\* The bytes of a file of CONFIG_PATH are changed; the name stays.
Tamper ==
    /\ Quiet /\ oob < MaxOob
    /\ \E e \in fs.cfg.files : \E b \in Tampered(e.bytes) :
          fs' = [fs EXCEPT !.cfg.files = (@ \ {e}) \cup {[e EXCEPT !.bytes = b]}]
    /\ oob' = oob + 1
    /\ proc' = [p \in Procs |-> Idle]
    /\ UNCHANGED <<kills, hist>>

\* A vault file is deleted by hand.
OobDelete ==
    /\ Quiet /\ oob < MaxOob
    /\ \E p \in DataPaths : \E x \in fs.vault[p].files :
          fs' = [fs EXCEPT !.vault[p].files = @ \ {x}]
    /\ oob' = oob + 1
    /\ proc' = [p \in Procs |-> Idle]
    /\ UNCHANGED <<kills, hist>>

\* A file is put into the vault by hand.
OobCreate ==
    /\ Quiet /\ oob < MaxOob
    /\ \E p \in DataPaths : \E name \in GoodNames :
          /\ fs.vault[p].exists
          /\ name \notin VaultNames(fs, p)
          /\ Within(WriteVault(fs, p, name, <<Plain("x")>>))
          /\ fs' = WriteVault(fs, p, name, <<Plain("x")>>)
    /\ oob' = oob + 1
    /\ proc' = [p \in Procs |-> Idle]
    /\ UNCHANGED <<kills, hist>>

Next ==
    \/ DoInit \/ DoAdd \/ DoRm \/ DoLs \/ DoGet \/ DoDestroy \/ DoSession
    \/ Tamper \/ OobDelete \/ OobCreate

Spec == Init /\ [][Next]_vars


\* ----------------------------------------------- processes, step by step

\* What process 1 and process 2 run in SpecSteps.
StepCmds(p) ==
    IF p = 1
    THEN {StartInit(DEFAULT_DATA_PATH),
          StartAdd(<<"a">>, JStr(<<"test">>), TRUE, "pw", NoStr, TRUE),
          StartRm(<<"a">>, NoStr)}
    ELSE {StartSession("w", "timeout", "", NoStr)}

\* Process p starts a command.
Begin(p) ==
    /\ ~Running(proc[p])
    /\ \E l0 \in StepCmds(p) : proc' = [proc EXCEPT ![p] = l0]
    /\ hist' = [hist EXCEPT !.both = FALSE]
    /\ UNCHANGED <<fs, oob, kills>>

\* The session of l has read the record and has not begun to commit.
Holding(l) == l.pc = "s_body"
Stepped(p, n) ==
    /\ Within(n.fs)
    /\ fs' = n.fs
    /\ proc' = [proc EXCEPT ![p] = n.l]
    /\ hist' = [both |-> hist.both
                           \/ /\ Holding(n.l)
                              /\ \A q \in Procs \ {p} :
                                    Holding(proc[q]) /\ proc[q].config = n.l.config,
                last |-> IF proc[p].pc = "c_rename" /\ n.l.err # "io_error" THEN p
                         ELSE hist.last]
\* Process p takes the next step of its command.
StepProc(p) ==
    /\ Running(proc[p])
    /\ Stepped(p, Step(fs, proc[p]))
    /\ UNCHANGED <<oob, kills>>

\* Process p is killed where it is; the files it holds open are closed.
Kill(p) ==
    /\ Running(proc[p])
    /\ kills < MaxKills
    /\ kills' = kills + 1
    /\ proc' = [proc EXCEPT ![p] = [Finish(@, "killed") EXCEPT !.at = proc[p].pc]]
    /\ fs' = [fs EXCEPT !.open = @ \ {proc[p].fd}]
    /\ UNCHANGED <<oob, hist>>

NextSteps == \E p \in Procs : Begin(p) \/ StepProc(p) \/ Kill(p)

SpecSteps == Init /\ [][NextSteps]_vars


\* ------------------------------------------- commands on any store at all

\* The records of the stores to begin with: no secret, and the secret a.
StoreRecords ==
    {LockeyConfig(JStr(DEFAULT_DATA_PATH), JNum(DEFAULT_TIMEOUT), secrets) :
        secrets \in {<<>>, <<LockeySecret(JStr(<<"a">>), JStr(<<"test">>),
                                          JBool(TRUE))>>}}
Repeat(c, n) == [i \in 1..n |-> c]
\* Names a file of CONFIG_PATH may have been given: 0x and 62 hex digits, a
\* blank and 63 hex digits, 64 letters g, 63 hex digits, 64 hex digits,
\* tempname.json.
OddNames ==
    {<<"0", "x">> \o Repeat("a", HashLen - 2), <<" ">> \o Repeat("a", HashLen - 1),
     Repeat("g", HashLen), Repeat("a", HashLen - 1), Repeat("a", HashLen),
     TempName.txt}
MetaFile(config) == CfgEntry(HashOf(Encode(config)), Encode(config), 1)
ExtraFile == CfgEntry(PlainName(<<"x">>), <<>>, 2)
SubDir == [CfgEntry(PlainName(<<"d">>), <<>>, 2) EXCEPT !.reg = FALSE]
\* What CONFIG_PATH may hold around the metadata file f: f alone, f and one
\* more file, f and a directory, f emptied, f under another name.
ListingsOf(f) ==
    {{f}, {f, ExtraFile}, {f, SubDir}, {[f EXCEPT !.bytes = <<>>]}}
    \cup {{[f EXCEPT !.name = PlainName(n)]} : n \in OddNames}
CfgDirs ==
    {NoDir, EmptyDir, [exists |-> TRUE, files |-> {SubDir}]}
    \cup {[exists |-> TRUE, files |-> d] :
            d \in UNION {ListingsOf(MetaFile(r)) : r \in StoreRecords}}
Vaults ==
    {NoDir, EmptyDir,
     [exists |-> TRUE, files |-> {VaultFile(<<"a">>, <<Plain("pw")>>)}]}
\* Records written by hand with a value of another type: a timeout that is
\* true, a string, negative; a secret whose is_unencrypted is a string, whose
\* message is a number, whose name is a number; a data_path that is true.
SecretA(name, message, is_unencrypted) ==
    <<LockeySecret(name, message, is_unencrypted)>>
OddRecords ==
    {LockeyConfig(JStr(DEFAULT_DATA_PATH), JBool(TRUE), <<>>),
     LockeyConfig(JStr(DEFAULT_DATA_PATH), JStr(<<"45">>), <<>>),
     LockeyConfig(JStr(DEFAULT_DATA_PATH), JNum(-1), <<>>),
     LockeyConfig(JStr(DEFAULT_DATA_PATH), JNum(DEFAULT_TIMEOUT),
                  SecretA(JStr(<<"a">>), JStr(<<"test">>), JStr(<<"yes">>))),
     LockeyConfig(JStr(DEFAULT_DATA_PATH), JNum(DEFAULT_TIMEOUT),
                  SecretA(JStr(<<"a">>), JNum(5), JBool(TRUE))),
     LockeyConfig(JStr(DEFAULT_DATA_PATH), JNum(DEFAULT_TIMEOUT),
                  SecretA(JNum(5), JStr(<<"test">>), JBool(TRUE))),
     LockeyConfig(JBool(TRUE), JNum(DEFAULT_TIMEOUT), <<>>)}
\* JSON written by hand that is no record: no clipboard_timeout, a secret
\* without a message, secrets that are an object, a list for the record.
OddValues ==
    {AsDict(r) : r \in OddRecords}
    \cup {JObj(<<Member("data_path", JStr(DEFAULT_DATA_PATH)),
                 Member("secrets", JArr(<<>>))>>),
          JObj(<<Member("data_path", JStr(DEFAULT_DATA_PATH)),
                 Member("clipboard_timeout", JNum(DEFAULT_TIMEOUT)),
                 Member("secrets",
                        JArr(<<JObj(<<Member("name", JStr(<<"a">>)),
                                      Member("is_unencrypted", JBool(TRUE))>>)>>))>>),
          JObj(<<Member("data_path", JStr(DEFAULT_DATA_PATH)),
                 Member("clipboard_timeout", JNum(DEFAULT_TIMEOUT)),
                 Member("secrets", JObj(<<>>))>>),
          JArr(<<JNum(1)>>)}
\* The store whose metadata file holds the JSON value v under the hash of its
\* bytes, with the vault file a.
StoreOf(v) ==
    [NoFs EXCEPT !.cfg = [exists |-> TRUE,
                          files |-> {CfgEntry(HashOf(JsonDump(v)), JsonDump(v), 1)}],
                 !.vault[DEFAULT_DATA_PATH] =
                     [exists |-> TRUE,
                      files |-> {VaultFile(<<"a">>, <<Plain("pw")>>)}]]
Stores ==
    {[NoFs EXCEPT !.cfg = c, !.vault[DEFAULT_DATA_PATH] = v] :
        c \in CfgDirs, v \in Vaults}
    \cup {StoreOf(v) : v \in OddValues}

\* Any of the stores, as changes from outside the commands have left it.
InitStore ==
    /\ fs \in Stores
    /\ proc = [p \in Procs |-> Idle]
    /\ oob = MaxOob
    /\ kills = 0
    /\ hist = [both |-> FALSE, last |-> 0]

Commands == DoInit \/ DoAdd \/ DoRm \/ DoLs \/ DoGet \/ DoDestroy \/ DoSession

SpecStore == InitStore /\ [][Commands]_vars

\* ------------------------------------------------------------------ claims

\* CONFIG_PATH holds one file, a regular one, named by the hash of its bytes.
Consistent(f) ==
    /\ f.cfg.exists
    /\ Cardinality(f.cfg.files) = 1
    /\ \A e \in f.cfg.files : e.reg /\ e.name = HashOf(e.bytes)

\* The command of l ended well and had the record written back.
Committed(l) ==
    /\ l.pc = "done" /\ l.err = ""
    /\ \/ l.cmd \in {"init", "add"}
       \/ l.cmd = "rm" /\ l.in_config
       \/ l.cmd = "session" /\ l.mode = "w"

\* C1: after init has succeeded, and after a session in mode "w" has ended
\* without an exception (a caller's, or the one of add and of rm), the
\* configuration directory holds exactly one regular file and the name of
\* that file is the SHA-256 of its bytes.
Thm_C1 == Committed(proc[1]) => Consistent(fs)

\* A session in mode "w" that set the timeout ended well: the file holds 30.
Witness_C1 ==
    /\ Committed(proc[1])
    /\ proc[1].cmd = "session" /\ proc[1].mut = "timeout"
    /\ Stored(fs).config.clipboard_timeout = JNum(30)

\* The step is a session whose body was run and raised.
BodyRaised == oob' = oob + 1 /\ proc'[1].cmd = "session" /\ proc'[1].entered
              /\ proc'[1].exc # ""

\* C2 (as the specification states it): a session whose body raises, in
\* mode "r" or in mode "w", leaves the configuration directory, the name of
\* the metadata file and its bytes as they were before the session.
Claim_C2 == [][BodyRaised => fs' = fs]_vars

\* CONFIG_PATH holds one file with a name of the form of a hash that is not
\* the hash of the bytes: a valid store whose bytes were changed by hand.
TamperedStore(f) ==
    /\ f.cfg.exists
    /\ \E e \in f.cfg.files :
          f.cfg.files = {e} /\ e.reg /\ is_sha256_hash(e.name)
          /\ e.name # HashOf(e.bytes)

\* The step is a command that opens a session.
OpensSession ==
    /\ proc' # proc
    /\ proc'[1].pc = "done"
    /\ \/ proc'[1].cmd \in {"ls", "get", "rm", "destroy", "session"}
       \/ proc'[1].cmd = "add" /\ proc'[1].err # "invalid_name"

\* C4 (as the specification states it): when the bytes of the metadata file
\* were changed and its name was not, the next open of a session fails with
\* ChecksumVerificationError, no body runs and nothing is written or renamed.
Claim_C4 ==
    [][(TamperedStore(fs) /\ OpensSession)
          => (proc'[1].err = "checksum" /\ ~proc'[1].entered /\ fs' = fs)]_vars

\* C4, amended: when the bytes of the metadata file were changed and its name
\* was not, the next open of a session fails: with ChecksumVerificationError
\* when the bytes are still JSON, with the "not valid json" exit of
\* get_config_metadata when they are not; no body runs and nothing is
\* written or renamed.
Thm_C4 ==
    [][(TamperedStore(fs) /\ OpensSession)
          => /\ proc'[1].err =
                  (IF JsonLoad((CHOOSE e \in fs.cfg.files : TRUE).bytes).ok
                   THEN "checksum" ELSE "cfg_notjson")
             /\ ~proc'[1].entered
             /\ fs' = fs]_vars

\* A session in mode "w" was opened on a tampered store and failed the check.
Witness_C4 ==
    /\ TamperedStore(fs)
    /\ proc[1].pc = "done" /\ proc[1].cmd = "session" /\ proc[1].mode = "w"
    /\ proc[1].err = "checksum"

\* The step is a command that only opens sessions in mode "r".
ReadOnly ==
    /\ proc' # proc
    /\ proc'[1].pc = "done"
    /\ \/ proc'[1].cmd \in {"ls", "get"}
       \/ proc'[1].cmd = "session" /\ proc'[1].mode = "r"

\* C5: a session in mode "r" (a caller's, the one of ls, the ones of get and
\* of the lookup it uses) leaves the file system as it found it, whatever
\* its body did to the record in memory and however it ended.
Thm_C5 == [][ReadOnly => fs' = fs]_vars

\* A session in mode "r" set the timeout in memory and ended well; the file
\* still holds the default.
Witness_C5 ==
    /\ proc[1].pc = "done" /\ proc[1].cmd = "session" /\ proc[1].mode = "r"
    /\ proc[1].mut = "timeout" /\ proc[1].err = ""
    /\ Stored(fs).config.clipboard_timeout = JNum(DEFAULT_TIMEOUT)

\* The names of the secrets of the stored record, and the names of the files
\* of the vault directory it points to.
MetaView(f) ==
    {Stored(f).config.secrets[i].name : i \in 1..Len(Stored(f).config.secrets)}
VaultView(f) ==
    IF Stored(f).config.data_path.s \in DataPaths
    THEN {JStr(n) : n \in VaultNames(f, Stored(f).config.data_path.s)}
    ELSE {}

\* C7 (as the specification states it): without out-of-band changes, after
\* any sequence of add and rm over names that the validator accepts (names
\* with periods too), the names of the files of the vault directory are the
\* names of the secrets of the metadata record.
Claim_C7 ==
    (oob = 0 /\ Quiet /\ Consistent(fs) /\ Stored(fs).err = "")
        => VaultView(fs) = MetaView(fs)

\* The step is rm of the name n.
RmOf(n) ==
    /\ proc' # proc
    /\ proc'[1].pc = "done" /\ proc'[1].cmd = "rm" /\ proc'[1].name = n

\* The metadata names n and the vault has no file n.
MetadataOnly(f, n) ==
    /\ Consistent(f) /\ Stored(f).err = ""
    /\ JStr(n) \in MetaView(f) /\ JStr(n) \notin VaultView(f)

\* C8 (as the specification states it): when the vault file of a secret is
\* gone and its metadata entry is still there, rm of that name does not
\* fail: it deletes the metadata entry and commits a valid metadata file.
Claim_C8 ==
    [][\A n \in GetNames :
         (MetadataOnly(fs, n) /\ RmOf(n))
            => /\ proc'[1].err = ""
               /\ Consistent(fs') /\ Stored(fs').err = ""
               /\ JStr(n) \notin MetaView(fs')]_vars

\* The store opens; n is, or is not, a secret of the record and a file of
\* the vault.
InBoth(f, n) ==
    Opens(f) /\ JStr(n) \in MetaView(f) /\ JStr(n) \in VaultView(f)
InNeither(f, n) ==
    Opens(f) /\ JStr(n) \notin MetaView(f) /\ JStr(n) \notin VaultView(f)

\* C9 (as the specification states it): rm of a secret that is in the
\* metadata and in the vault deletes the metadata entry and the vault file;
\* rm of a name that is in neither reports that it was not found and leaves
\* the metadata file and the vault as they were.
Claim_C9 ==
    [][\A n \in GetNames :
         /\ (InBoth(fs, n) /\ RmOf(n))
               => /\ proc'[1].err = ""
                  /\ InNeither(fs', n)
         /\ (InNeither(fs, n) /\ RmOf(n))
               => /\ proc'[1].err = "not_found"
                  /\ fs' = fs]_vars

\* The store opens; n is a file of the vault and no secret of the record.
VaultOnly(f, n) ==
    Opens(f) /\ JStr(n) \notin MetaView(f) /\ JStr(n) \in VaultView(f)

\* C10 (as the specification states it): when the vault has a file n and the
\* metadata has no entry n, rm of n does not fail: it deletes that vault file
\* and leaves the metadata file, its name and its bytes, as they were.
Claim_C10 ==
    [][\A n \in GetNames :
         (VaultOnly(fs, n) /\ RmOf(n))
            => /\ proc'[1].err = ""
               /\ JStr(n) \notin VaultView(fs')
               /\ fs'.cfg = fs.cfg]_vars

\* C3 (as the specification states it): wherever a process is interrupted
\* in the commit of a session in mode "w", the configuration directory holds
\* one file whose name is the hash of its bytes, and the next open of a
\* session succeeds.
Claim_C3 ==
    (proc[2].pc = "idle" /\ proc[1].err = "killed" /\ proc[1].at \in CommitPcs)
        => (Consistent(fs) /\ Opens(fs))

\* The record of the file is the one of the session that renamed last:
\* process 1 adds or removes the secret a, process 2 sets the timeout.
LastWins ==
    CASE hist.last = 1 ->
           (JStr(<<"a">>) \in MetaView(fs)) = (proc[1].cmd = "add")
      [] hist.last = 2 ->
           /\ (JStr(<<"a">>) \in MetaView(fs)) = (proc[1].cmd = "rm")
           /\ Stored(fs).config.clipboard_timeout = JNum(30)
      [] OTHER -> FALSE

\* C6 (as the specification states it): when two processes hold the record
\* of the same verified state, each in a session in mode "w", before either
\* commits, then however their commits interleave both sessions end without
\* an error and the directory ends with one file, named by its hash, whose
\* record is the one of the session that renamed last.
Claim_C6 ==
    (hist.both /\ Quiet /\ kills = 0)
        => /\ proc[1].err = "" /\ proc[2].err = ""
           /\ Consistent(fs)
           /\ LastWins

\* The step is add of the name n.
AddOf(n) ==
    /\ proc' # proc
    /\ proc'[1].pc = "done" /\ proc'[1].cmd = "add" /\ proc'[1].name = n

\* What the vault file n of the store f holds.
VaultHolds(f, n) == VaultData(f, Stored(f).config.data_path.s, n)

\* C11 (as the specification states it): without out-of-band changes, after
\* a successful plaintext add of a name n that is no secret of the record,
\* with the description d, the vault has a file n that holds exactly the
\* secret entered, and the secrets of the record are those of before and then
\* the entry (n, d, is_unencrypted = true).
Claim_C11 ==
    [][\A n \in NamePool :
         (oob = 0 /\ Opens(fs) /\ JStr(n) \notin MetaView(fs)
          /\ AddOf(n) /\ proc'[1].err = "" /\ proc'[1].plain)
            => /\ VaultHolds(fs', n) = <<Plain(proc'[1].secret)>>
               /\ Stored(fs').config.secrets =
                     Append(Stored(fs).config.secrets,
                            LockeySecret(JStr(n), proc'[1].msg, JBool(TRUE)))]_vars

\* A name as the specification wants it: not empty, every character a
\* letter, a digit, a hyphen, an underscore, a period or @.
WellFormedName(n) == Len(n) > 0 /\ \A i \in 1..Len(n) : n[i] \in NameChars

\* C12 (as the specification states it): add accepts a name if and only if
\* it is not empty and has only letters, digits, hyphens, underscores,
\* periods and @; any other name (a blank or a newline in it, a path
\* separator) gets the invalid-name error and nothing is written.
Claim_C12 ==
    [][\A n \in NamePool :
         (AddOf(n) /\ proc'[1].err \notin StoreErrors)
            => IF WellFormedName(n) THEN proc'[1].err # "invalid_name"
               ELSE proc'[1].err = "invalid_name" /\ fs' = fs]_vars

\* No two secrets of the record of the store f have the same name.
UniqueNames(f) ==
    \A i, j \in 1..Len(Stored(f).config.secrets) :
        i # j => Stored(f).config.secrets[i].name # Stored(f).config.secrets[j].name

\* C13 (as the specification states it): without out-of-band changes, an add
\* of a name that a metadata entry has, or that a vault file has, fails and
\* changes neither the metadata nor the vault; and after any add or rm no two
\* entries of the record have the same name.
Claim_C13 ==
    [][/\ \A n \in NamePool :
            (oob = 0 /\ Opens(fs) /\ AddOf(n)
             /\ (JStr(n) \in MetaView(fs) \/ JStr(n) \in VaultView(fs)))
               => (proc'[1].err # "" /\ fs' = fs)
       /\ (oob = 0 /\ proc'[1].cmd \in {"add", "rm"}) => UniqueNames(fs')]_vars

\* The step is init with the argument path.
InitOf(path) ==
    /\ proc' # proc
    /\ proc'[1].pc = "done" /\ proc'[1].cmd = "init" /\ proc'[1].path = path

\* The vault path chosen with the argument path, and the directory it is in.
ChosenVault(path) ==
    IF path = DEFAULT_DATA_PATH THEN DEFAULT_DATA_PATH ELSE path \o <<".lockey">>
ParentOf(p) == SubSeq(p, 1, Len(p) - 1)

\* Neither the chosen vault directory nor the configuration directory exists.
NoStore(f, path) == ~f.cfg.exists /\ ~f.vault[ChosenVault(path)].exists

\* The store f is as init with the argument path leaves it.
Initialized(f, path) ==
    /\ Consistent(f)
    /\ f.vault[ChosenVault(path)] = EmptyDir
    /\ Stored(f).err = ""
    /\ Stored(f).config = LockeyConfig(JStr(ChosenVault(path)), JNum(45), <<>>)

DestroyOf(resp) ==
    /\ proc' # proc
    /\ proc'[1].pc = "done" /\ proc'[1].cmd = "destroy" /\ proc'[1].resp = resp

\* C15 (as the specification states it): after init and any sequence of add
\* and rm, without out-of-band changes, a confirmed destroy succeeds and
\* leaves neither the vault directory nor the configuration directory: the
\* file system is as it was before init.
Claim_C15 ==
    [][(oob = 0 /\ fs.cfg.exists /\ DestroyOf("y"))
          => (proc'[1].err = "" /\ fs' = NoFs)]_vars

\* The store f is as a session needs it: the configuration directory has
\* exactly one regular file, its name is the hash of its bytes, and the vault
\* directory of the record exists.
Sound(f) ==
    /\ f.cfg.exists
    /\ Cardinality({e \in f.cfg.files : e.reg}) = 1
    /\ \A e \in f.cfg.files : e.reg => e.name = HashOf(e.bytes)
    /\ Stored(f).err = ""
    /\ DirExists(f, Stored(f).config.data_path)

\* C16: destroy deletes the vault directory and the configuration directory
\* only when the session in mode "r" opens (one regular file in the
\* configuration directory, named by its hash, the vault directory there)
\* and the answer is y, and then it deletes both; in every other case (a
\* file more, no file, no configuration directory, no vault directory, a
\* checksum mismatch, the answer n) it raises or returns and deletes nothing.
Thm_C16 ==
    [][\A resp \in {"y", "n"} :
         DestroyOf(resp)
            => /\ fs' # fs => (resp = "y" /\ Opens(fs) /\ Sound(fs))
               /\ (Opens(fs) /\ Sound(fs) /\ resp = "y")
                     => (proc'[1].err = "" /\ ~fs'.cfg.exists
                         /\ ~DirExists(fs', Stored(fs).config.data_path))
               /\ ~Opens(fs) => proc'[1].err # ""]_vars

\* destroy, confirmed, has raised on a configuration directory with a file
\* more, and the files are still there.
Witness_C16 ==
    /\ proc[1].pc = "done" /\ proc[1].cmd = "destroy" /\ proc[1].resp = "y"
    /\ proc[1].err = "cfg_ambiguous"
    /\ Cardinality(fs.cfg.files) = 2

\* The name is 64 characters, hex digits only.
HexOnly(name) ==
    name.hex \/ (Len(name.txt) = 64 /\ \A i \in 1..64 : name.txt[i] \in HexDigits)

\* The error the specification gives get_config_metadata on the store f.
LocatorError(f, regular) ==
    IF ~f.cfg.exists THEN "cfgdir_missing"
    ELSE IF regular = {} THEN "cfg_empty"
    ELSE IF Cardinality(regular) > 1 THEN "cfg_ambiguous"
    ELSE IF \E e \in regular : ~HexOnly(e.name) THEN "cfg_badname"
    ELSE IF \E e \in regular : ~JsonLoad(e.bytes).ok THEN "cfg_notjson"
    ELSE ""
LocatorErrors == {"cfgdir_missing", "cfg_empty", "cfg_ambiguous", "cfg_badname",
                  "cfg_notjson"}

\* C17 (as the specification states it): get_config_metadata fails with an
\* error of its own when the configuration directory is missing, when it has
\* no regular file, when it has more than one, when the name of the file is
\* not 64 hex digits and nothing else, when the bytes are not JSON, and
\* succeeds otherwise; a command that fails so changes no file.
Claim_C17 ==
    [][/\ get_config_metadata(fs).err
             = LocatorError(fs, {e \in fs.cfg.files : e.reg})
       /\ proc'[1].err \in LocatorErrors => fs' = fs]_vars

\* The step is a session in mode "w" (a caller's, the one of add, the one of
\* rm) whose body has changed the record and that has ended well.
WroteChange ==
    /\ proc' # proc
    /\ Opens(fs)
    /\ proc'[1].pc = "done" /\ proc'[1].err = ""
    /\ \/ proc'[1].cmd = "add"
       \/ proc'[1].cmd = "rm" /\ proc'[1].in_config
       \/ /\ proc'[1].cmd = "session" /\ proc'[1].mode = "w"
          /\ \/ proc'[1].mut = "append"
             \/ /\ proc'[1].mut = "timeout"
                /\ Stored(fs).config.clipboard_timeout # JNum(30)

\* C18: after a session in mode "w" whose body has changed the record and
\* that has ended well, the configuration directory has exactly one file,
\* named by the hash of its bytes, its name is not the name of before, and
\* no file has the name of before.
Thm_C18 ==
    [][WroteChange
          => /\ Consistent(fs')
             /\ \A old \in fs.cfg.files, new \in fs'.cfg.files :
                   new.name # old.name]_vars

\* A session in mode "w" has appended the secret a and ended well; the record
\* of the file has it.
Witness_C18 ==
    /\ proc[1].pc = "done" /\ proc[1].cmd = "session" /\ proc[1].mode = "w"
    /\ proc[1].mut = "append" /\ proc[1].err = ""
    /\ Consistent(fs) /\ JStr(<<"a">>) \in MetaView(fs)

\* C19: without out-of-band changes, a session in mode "w" whose body leaves
\* the record as it is and that raises nothing ends well and leaves the
\* metadata file with the same name and the same bytes (and everything else
\* as it was).
Thm_C19 ==
    [][(proc' # proc /\ oob = 0 /\ Opens(fs)
        /\ proc'[1].pc = "done" /\ proc'[1].cmd = "session"
        /\ proc'[1].mode = "w" /\ proc'[1].mut = "none" /\ proc'[1].exc = "")
          => (proc'[1].err = "" /\ fs' = fs)]_vars

\* A session in mode "w" that changed nothing has ended well on a record
\* with a secret.
Witness_C19 ==
    /\ proc[1].pc = "done" /\ proc[1].cmd = "session" /\ proc[1].mode = "w"
    /\ proc[1].mut = "none" /\ proc[1].exc = "" /\ proc[1].err = ""
    /\ Len(Stored(fs).config.secrets) > 0

\* C20: the record that a session in mode "w" has committed (a caller's, the
\* one of add, the one of rm) is the record that the next open of a session
\* decodes, when that open succeeds (the vault files are there): the same
\* data_path, the same clipboard_timeout, the same secrets with the same
\* name, message and is_unencrypted in the same order.
Thm_C20 ==
    [][(proc' # proc /\ Opens(fs) /\ Committed(proc'[1])
        /\ proc'[1].cmd # "init" /\ Opens(fs'))
          => get_config(fs').config
                = Body(proc'[1], get_config(fs).config).config]_vars

\* An add of an encrypted secret without a description has ended well after
\* another secret was added: the record has two secrets and opens.
Witness_C20 ==
    /\ Committed(proc[1]) /\ proc[1].cmd = "add"
    /\ ~proc[1].plain /\ proc[1].msg = JNull
    /\ Opens(fs) /\ Len(Stored(fs).config.secrets) = 2

\* The JSON value v is a record as the specification has it: an object with
\* a string data_path, an integer clipboard_timeout that is not negative, and
\* a list of secrets, each an object with a string name, a message that is a
\* string or null, and a boolean is_unencrypted.
SchemaSecret(v) ==
    /\ v.t = "obj"
    /\ \A f \in {"name", "message", "is_unencrypted"} : HasKey(v, f)
    /\ GetKey(v, "name").t = "str"
    /\ GetKey(v, "message").t \in {"str", "null"}
    /\ GetKey(v, "is_unencrypted").t \in {"true", "false"}
SchemaSecrets(sv) ==
    sv.t = "arr" /\ \A i \in 1..Len(sv.kids) : SchemaSecret(sv.kids[i])
SchemaRecord(v) ==
    /\ v.t = "obj"
    /\ \A f \in {"data_path", "clipboard_timeout", "secrets"} : HasKey(v, f)
    /\ GetKey(v, "data_path").t = "str"
    /\ GetKey(v, "clipboard_timeout").t = "num"
    /\ GetKey(v, "clipboard_timeout").n >= 0
    /\ SchemaSecrets(GetKey(v, "secrets"))

\* The metadata file of the store f is named by the hash of its bytes, the
\* bytes are JSON, and the JSON is no record of the schema.
ValidButOdd(f) ==
    /\ Consistent(f)
    /\ \A e \in f.cfg.files :
          JsonLoad(e.bytes).ok /\ ~SchemaRecord(JsonLoad(e.bytes).v)

\* C21 (as the specification states it): when the metadata file passes the
\* checksum and a field of the record is missing, or has a value of another
\* type, or the timeout is negative, every open of a session fails and no
\* body is handed a record.
Claim_C21 ==
    [][(ValidButOdd(fs) /\ OpensSession)
          => (proc'[1].err # "" /\ ~proc'[1].entered)]_vars

\* The step is an add, rm, ls or get, or a session of a caller's, run to
\* its end.
KeepsVault ==
    /\ proc' # proc
    /\ proc'[1].pc = "done"
    /\ proc'[1].cmd \in {"add", "rm", "ls", "get", "session"}

\* C22: no add, rm, ls or get (nor a session whose body leaves the path
\* alone), however it ends and whatever it commits, changes the data_path of
\* the metadata record: after init it stays what init wrote, until destroy
\* and another init.
Thm_C22 ==
    [][KeepsVault
          => /\ Stored(fs').config.data_path = Stored(fs).config.data_path
             /\ Stored(fs').err = "" => Stored(fs).err = ""]_vars

\* After init with a path of the user's, an add and then an rm have
\* committed: the record still has the path init wrote.
Witness_C22 ==
    /\ Committed(proc[1]) /\ proc[1].cmd = "rm"
    /\ Consistent(fs) /\ Stored(fs).err = ""
    /\ Stored(fs).config.data_path = JStr(JoinLockey(CustomHead))
    /\ fs.vault[JoinLockey(CustomHead)].exists

\* The entries of the record of the store f that have the name m, and the
\* files of the vault directories that have it.
EntriesOf(f, m) ==
    SelectSeq(Stored(f).config.secrets, LAMBDA sec : sec.name = JStr(m))
FilesOf(f, m) ==
    [p \in DataPaths |-> {x \in f.vault[p].files : x.name = m}]

\* C23 (as the specification states it): add of n and rm of n leave the
\* metadata entries and the vault file of every other name m as they were;
\* rm of n deletes no vault file whose name is not n.
Claim_C23 ==
    [][\A n, m \in NamePool \cup GetNames :
         (m # n /\ (AddOf(n) \/ RmOf(n)))
            => /\ EntriesOf(fs', m) = EntriesOf(fs, m)
               /\ FilesOf(fs', m) = FilesOf(fs, m)]_vars

\* Process 1 is in an add or an rm, or was killed in one, or has ended one,
\* and no other process has run.
AloneInAddRm ==
    proc[2].pc = "idle" /\ proc[1].cmd \in {"add", "rm"}

\* Every secret of the record of the store f has its vault file.
EntriesHaveFiles(f) == MetaView(f) \subseteq VaultView(f)

\* C24 (as the specification states it): at every point of an add or an rm,
\* and after an interruption at any such point, no metadata entry is without
\* its vault file, and after an interruption of an add or an rm that had
\* opened its session the next open of a session succeeds.
Claim_C24 ==
    AloneInAddRm
        => /\ EntriesHaveFiles(fs)
           /\ (proc[1].err = "killed" /\ proc[1].entered) => Opens(fs)

\* What get_secret_filepath_by_name(n) returns on the store f when
\* os.listdir lists the file first first.
LookupOn(f, n, first) == get_secret_filepath_by_name(f, get_config(f), n, first)

\* C25 (as the specification states it): without out-of-band changes, for
\* every name n that add has accepted and stored (names with periods too)
\* and that no rm has removed, get_secret_filepath_by_name(n) returns the
\* vault file named n, and no other file.
Claim_C25 ==
    \A n \in NamePool :
       (oob = 0 /\ Opens(fs) /\ JStr(n) \in MetaView(fs))
          => \A first \in FirstChoices(fs, n) :
                LookupOn(fs, n, first).hit = [found |-> TRUE, file |-> n]

=============================================================================
